---- MODULE Spec2Model ----
(***************************************************************************)
(* Model of build-frontend.py, the build orchestrator of the Wikitext      *)
(* Simplified frontend: check_prerequisites, run_command, build_wasm,      *)
(* install_dependencies, build_frontend, dev_server and main.              *)
(*                                                                         *)
(* Every subprocess.run call is split in two steps, the launch of the      *)
(* child and its exit, so that the orchestrator's blocking wait is a state *)
(* of the model.  The behaviour of the external tools is the function      *)
(* `tool`, from command lines to outcomes; an entry is fixed the first     *)
(* time the command exits and is kept when the orchestrator is run again.  *)
(***************************************************************************)
EXTENDS Integers, Sequences, FiniteSets, TLC

VARIABLES
    args,        \* argparse namespace: build, dev, skip_wasm, skip_install
    system,      \* platform.system()
    tool,        \* behaviour of the external tools: command line -> outcome
    pc,          \* position of the orchestrator in main()
    i,           \* index of the next entry of `tools` in check_prerequisites
    missing,     \* check_prerequisites' list `missing`
    running,     \* the child processes launched and not yet exited
    invoked,     \* the command lines handed to subprocess.run, in order
    output,      \* what was printed, in order, each line with its stream
    exitStatus,  \* the exit status of the process, once pc = "done"
    run,         \* how many times the orchestrator has been started
    prev         \* invoked and exitStatus of the previous run

vars == <<args, system, tool, pc, i, missing, running, invoked, output,
          exitStatus, run, prev>>

----------------------------------------------------------------------------
(* Bounds *)

\* largest exit status an external command returns
MaxExitCode == 2
\* how many times in a row the orchestrator is run
MaxRuns == 2

----------------------------------------------------------------------------
(* Command lines *)

\* only the tools the steps of this run would use
toolsOfRun ==
    IF args.skip_wasm
    THEN << [tool |-> "npm", check_cmd |-> <<"npm", "--version">>] >>
    ELSE << [tool |-> "wasm-pack", check_cmd |-> <<"wasm-pack", "--version">>],
            [tool |-> "npm",       check_cmd |-> <<"npm", "--version">>] >>

\* check_prerequisites: tools (a dict, iterated in insertion order)
tools == << [tool |-> "wasm-pack", check_cmd |-> <<"wasm-pack", "--version">>],
            [tool |-> "npm",       check_cmd |-> <<"npm", "--version">>] >>

\* build_wasm: the command line given to run_command
WasmCmd == <<"wasm-pack", "build", "wikitext-wasm", "--target", "web", "--out-dir", "frontend/src/wasm">>
\* install_dependencies
InstallCmd == <<"npm", "install">>
\* build_frontend
BuildCmd == <<"npm", "run", "build">>
\* dev_server
DevCmd == <<"npm", "run", "dev">>

CheckCmds == {tools[k].check_cmd : k \in 1..Len(tools)}
StepCmds == {WasmCmd, InstallCmd, BuildCmd, DevCmd}
Commands == CheckCmds \cup StepCmds

----------------------------------------------------------------------------
(* The environment: what an external command does when it is launched *)

Systems == {"Windows", "Linux"}

\* a command runs and exits with a status, or its executable is not on the
\* search path, or the operator interrupts (Ctrl+C) while it runs
Outcomes == {[kind |-> "exit", code |-> c] : c \in 0..MaxExitCode}
            \cup {[kind |-> "absent", code |-> 0], [kind |-> "interrupt", code |-> 0]}

Unset == [kind |-> "unset", code |-> 0]

Flags == [build : BOOLEAN, dev : BOOLEAN, skip_wasm : BOOLEAN, skip_install : BOOLEAN]

\* use_shell = platform.system() == 'Windows'
use_shell == system = "Windows"

\* subprocess.run without check=True: a non-zero exit raises nothing
SubprocessRunNoCheck(o, shell) ==
    CASE o.kind = "interrupt" -> [exc |-> "KeyboardInterrupt", returncode |-> 0]
      [] o.kind = "absent" /\ ~shell -> [exc |-> "FileNotFoundError", returncode |-> 0]
      [] OTHER -> [exc |-> "none", returncode |-> 0]

\* subprocess.run(cmd, check=True, shell=shell): the exception it raises
\* ("none": it returns) and the returncode of the child.  Through the shell
\* an absent executable is the shell's own non-zero exit, not an OSError.
SubprocessRun(o, shell) ==
    CASE o.kind = "interrupt" -> [exc |-> "KeyboardInterrupt", returncode |-> 0]
      [] o.kind = "absent" /\ ~shell -> [exc |-> "FileNotFoundError", returncode |-> 0]
      [] o.kind = "absent" /\ shell -> [exc |-> "CalledProcessError", returncode |-> 1]
      [] o.kind = "exit" /\ o.code # 0 -> [exc |-> "CalledProcessError", returncode |-> o.code]
      [] OTHER -> [exc |-> "none", returncode |-> 0]

\* exit status of the interpreter when an exception reaches the top level
ExitInterrupted == 130
UncaughtExit(exc) == IF exc = "KeyboardInterrupt" THEN ExitInterrupted ELSE 1

----------------------------------------------------------------------------
(* Printed lines *)

Out(kind, cmd) == [stream |-> "stdout", kind |-> kind, cmd |-> cmd, code |-> 0]
Err(kind, cmd, code) == [stream |-> "stderr", kind |-> kind, cmd |-> cmd, code |-> code]

\* the traceback the interpreter prints for an exception nobody caught
Traceback(exc, cmd, code) == Err(exc, cmd, code)

\* "=" * 60, title, "=" * 60
Banner(title) == <<Out("rule", <<>>), Out(title, <<>>), Out("rule", <<>>)>>

----------------------------------------------------------------------------
(* Decisions of the code *)

\* check_prerequisites with a bare except
PrereqCatchesAll(exc) == TRUE

\* check_prerequisites: except (subprocess.CalledProcessError, FileNotFoundError)
PrereqCatches(exc) == exc \in {"CalledProcessError", "FileNotFoundError"}

\* a failed version check tried again, up to three checks in all
NextToolRetry(k, failed) == IF failed /\ Len(invoked) < 3 THEN k ELSE k + 1

\* the loop left at the first tool that fails
NextToolBreak(k, failed) == IF failed THEN Len(tools) + 1 ELSE k + 1

\* check_prerequisites: the for loop goes on to the next tool, failed or not
NextTool(k, failed) == k + 1

\* abort only when every tool is missing
MissingAbortAll(m) == Len(m) = Len(tools)

\* check_prerequisites: if missing
MissingAbort(m) == m # <<>>

\* --skip-wasm ignored
ShouldBuildWasmAlways(a) == TRUE

\* main: if not args.skip_wasm
ShouldBuildWasm(a) == ~a.skip_wasm

\* the install step left out once an earlier run has done it
ShouldInstallOnce(a) == ~a.skip_install /\ run = 1

\* main: if not args.skip_install
ShouldInstall(a) == ~a.skip_install

\* the two mode tests in the other order
ModeDevFirst(a) == IF a.dev THEN "dev" ELSE IF a.build THEN "build" ELSE "setup"

\* main: if args.build ... elif args.dev ... else
Mode(a) == IF a.build THEN "build" ELSE IF a.dev THEN "dev" ELSE "setup"

\* run_command: the two except clauses
RunCommandCatches(exc) == exc \in {"CalledProcessError", "FileNotFoundError"}

\* the same lines printed without file=sys.stderr
RunCommandDiagnosticStdout(res, cmd) ==
    IF res.exc = "CalledProcessError"
    THEN <<[stream |-> "stdout", kind |-> "Error: Command failed with exit code",
            cmd |-> <<>>, code |-> res.returncode]>>
    ELSE <<Out("Error: Command not found", <<cmd[1]>>),
           Out("Make sure it is installed and in your PATH", <<cmd[1]>>)>>

\* run_command: what the except clause that caught the exception prints
RunCommandDiagnostic(res, cmd) ==
    IF res.exc = "CalledProcessError"
    THEN <<Err("Error: Command failed with exit code", <<>>, res.returncode)>>
    ELSE <<Err("Error: Command not found", <<cmd[1]>>, 0),
           Err("Make sure it is installed and in your PATH", <<cmd[1]>>, 0)>>

\* run_command: sys.exit(1) in both except clauses
RunCommandExit(res) == 1

\* run_command: what is printed before the command is launched
RunCommandPrologue(cmd, description) == <<Out(description, <<>>), Out("$", cmd)>>

\* dev_server without its except clause
DevServerCatchesNothing(exc) == FALSE

\* dev_server with a bare except
DevServerCatchesAll(exc) == TRUE

\* dev_server: except KeyboardInterrupt
DevServerCatches(exc) == exc = "KeyboardInterrupt"

\* check_prerequisites: the report printed when tools are missing
MissingReport(m) ==
    <<Err("Error: Missing required tools:", <<>>, 0)>>
    \o [k \in 1..Len(m) |-> Err("  - tool", <<m[k]>>, 0)]
    \o <<Err("Please install the missing tools and try again.", <<>>, 0)>>

----------------------------------------------------------------------------
(* Steps *)

\* subprocess.run starts the child and blocks
Launch(cmd) ==
    /\ running' = running \cup {cmd}
    /\ invoked' = Append(invoked, cmd)

\* the child started without waiting for it: the orchestrator goes on
\* while the child is still running
ExitsNoWait(cmd, o) ==
    /\ cmd \in running
    /\ tool[cmd] \in {Unset, o}
    /\ tool' = [tool EXCEPT ![cmd] = o]
    /\ running' = running

\* the child ends with outcome o, the one this command line always has
Exits(cmd, o) ==
    /\ cmd \in running
    /\ tool[cmd] \in {Unset, o}
    /\ tool' = [tool EXCEPT ![cmd] = o]
    /\ running' = running \ {cmd}

\* the process ends: sys.exit, the end of main, or an uncaught exception
Terminate(status) ==
    /\ pc' = "done"
    /\ exitStatus' = status

\* an exception that no except clause catches ends the process
Uncaught(res, cmd) ==
    /\ output' = output \o <<Traceback(res.exc, cmd, res.returncode)>>
    /\ Terminate(UncaughtExit(res.exc))

Init ==
    /\ args \in Flags
    /\ system \in Systems
    /\ tool = [c \in Commands |-> Unset]
    /\ pc = "check_prerequisites"
    /\ i = 1
    /\ missing = <<>>
    /\ running = {}
    /\ invoked = <<>>
    /\ output = <<>>
    /\ exitStatus = -1
    /\ run = 1
    /\ prev = [invoked |-> <<>>, exitStatus |-> -1]

\* check_prerequisites: subprocess.run(check_cmd.split(), ...) is started
CheckLaunch ==
    /\ pc = "check_prerequisites"
    /\ i <= Len(tools)
    /\ Launch(tools[i].check_cmd)
    /\ pc' = "check_wait"
    /\ UNCHANGED <<args, system, tool, i, missing, output, exitStatus, run, prev>>

\* check_prerequisites: the version check returns or raises
CheckExit ==
    /\ pc = "check_wait"
    /\ \E o \in Outcomes :
         LET res == SubprocessRun(o, use_shell) IN
         /\ Exits(tools[i].check_cmd, o)
         /\ IF res.exc = "none" \/ PrereqCatches(res.exc)
            THEN /\ missing' = IF res.exc = "none" THEN missing
                               ELSE Append(missing, tools[i].tool)
                 /\ i' = NextTool(i, res.exc # "none")
                 /\ pc' = "check_prerequisites"
                 /\ UNCHANGED <<output, exitStatus>>
            ELSE /\ Uncaught(res, tools[i].check_cmd)
                 /\ UNCHANGED <<i, missing>>
    /\ UNCHANGED <<args, system, invoked, run, prev>>

\* check_prerequisites: after the loop, report and exit 1, or return to
\* main, which prints its banner and the two directories
CheckDone ==
    /\ pc = "check_prerequisites"
    /\ i > Len(tools)
    /\ IF MissingAbort(missing)
       THEN /\ output' = output \o MissingReport(missing)
            /\ Terminate(1)
       ELSE /\ output' = output \o Banner("Wikitext Simplified Frontend Build")
                         \o <<Out("Project root:", <<>>), Out("Frontend dir:", <<>>)>>
            /\ pc' = "wasm"
            /\ UNCHANGED exitStatus
    /\ UNCHANGED <<args, system, tool, i, missing, running, invoked, run, prev>>

\* a step function: banner, then run_command up to the start of the child
StepLaunch(title, description, cmd, wait) ==
    /\ output' = output \o Banner(title) \o RunCommandPrologue(cmd, description)
    /\ Launch(cmd)
    /\ pc' = wait

\* run_command that returns to its caller after a non-zero exit
RunCommandReturnIgnoresFailure(cmd, o, ok) ==
    LET res == SubprocessRun(o, use_shell) IN
    /\ Exits(cmd, o)
    /\ IF res.exc \in {"none", "CalledProcessError"} THEN ok
       ELSE IF RunCommandCatches(res.exc)
       THEN /\ output' = output \o RunCommandDiagnostic(res, cmd)
            /\ Terminate(RunCommandExit(res))
       ELSE Uncaught(res, cmd)

\* run_command from the child's exit on; ok: run_command returned
RunCommandReturn(cmd, o, ok) ==
    LET res == SubprocessRun(o, use_shell) IN
    /\ Exits(cmd, o)
    /\ IF res.exc = "none" THEN ok
       ELSE IF RunCommandCatches(res.exc)
       THEN /\ output' = output \o RunCommandDiagnostic(res, cmd)
            /\ Terminate(RunCommandExit(res))
       ELSE Uncaught(res, cmd)

\* main: build_wasm(project_root), or the skip notice
WasmStep ==
    /\ pc = "wasm"
    /\ IF ShouldBuildWasm(args)
       THEN StepLaunch("Building WASM Module", "Building WASM module with wasm-pack...",
                       WasmCmd, "wasm_wait")
       ELSE /\ output' = Append(output, Out("Skipping WASM build (--skip-wasm)", <<>>))
            /\ pc' = "install"
            /\ UNCHANGED <<running, invoked>>
    /\ UNCHANGED <<args, system, tool, i, missing, exitStatus, run, prev>>

\* build_wasm: run_command returns or exits
WasmExit ==
    /\ pc = "wasm_wait"
    /\ \E o \in Outcomes :
         RunCommandReturn(WasmCmd, o,
            /\ output' = Append(output, Out("[OK] WASM module built successfully", <<>>))
            /\ pc' = "install"
            /\ UNCHANGED exitStatus)
    /\ UNCHANGED <<args, system, i, missing, invoked, run, prev>>

\* main: install_dependencies(frontend_dir), or the skip notice
InstallStep ==
    /\ pc = "install"
    /\ IF ShouldInstall(args)
       THEN StepLaunch("Installing Frontend Dependencies", "Installing npm packages...",
                       InstallCmd, "install_wait")
       ELSE /\ output' = Append(output, Out("Skipping dependency installation (--skip-install)", <<>>))
            /\ pc' = "mode"
            /\ UNCHANGED <<running, invoked>>
    /\ UNCHANGED <<args, system, tool, i, missing, exitStatus, run, prev>>

\* install_dependencies: run_command returns or exits
InstallExit ==
    /\ pc = "install_wait"
    /\ \E o \in Outcomes :
         RunCommandReturn(InstallCmd, o,
            /\ output' = Append(output, Out("[OK] Dependencies installed successfully", <<>>))
            /\ pc' = "mode"
            /\ UNCHANGED exitStatus)
    /\ UNCHANGED <<args, system, i, missing, invoked, run, prev>>

\* main: if args.build: build_frontend(frontend_dir)
BuildStep ==
    /\ pc = "mode"
    /\ Mode(args) = "build"
    /\ StepLaunch("Building Frontend", "Building production bundle...", BuildCmd, "build_wait")
    /\ UNCHANGED <<args, system, tool, i, missing, exitStatus, run, prev>>

\* build_frontend: run_command returns or exits; main prints and ends
BuildExit ==
    /\ pc = "build_wait"
    /\ \E o \in Outcomes :
         RunCommandReturn(BuildCmd, o,
            /\ output' = output \o <<Out("[OK] Frontend built successfully", <<>>)>>
                         \o Banner("Build Complete!")
                         \o <<Out("Production build available in:", <<>>),
                              Out("To preview the production build:", <<>>)>>
            /\ Terminate(0))
    /\ UNCHANGED <<args, system, i, missing, invoked, run, prev>>

\* main: elif args.dev: dev_server(frontend_dir), up to the start of the child
DevStep ==
    /\ pc = "mode"
    /\ Mode(args) = "dev"
    /\ output' = output \o Banner("Starting Development Server")
                 \o <<Out("Press Ctrl+C to stop the server", <<>>)>>
    /\ Launch(DevCmd)
    /\ pc' = "dev_wait"
    /\ UNCHANGED <<args, system, tool, i, missing, exitStatus, run, prev>>

\* dev_server: subprocess.run returns or raises; main ends
DevExit ==
    /\ pc = "dev_wait"
    /\ \E o \in Outcomes :
         LET res == SubprocessRun(o, use_shell) IN
         /\ Exits(DevCmd, o)
         /\ IF res.exc = "none"
            THEN /\ Terminate(0)
                 /\ UNCHANGED output
            ELSE IF DevServerCatches(res.exc)
            THEN /\ output' = Append(output, Out("Development server stopped.", <<>>))
                 /\ Terminate(0)
            ELSE Uncaught(res, DevCmd)
    /\ UNCHANGED <<args, system, i, missing, invoked, run, prev>>

\* main: else: the setup-only mode prints its guidance and ends
SetupDone ==
    /\ pc = "mode"
    /\ Mode(args) = "setup"
    /\ output' = output \o Banner("Setup Complete!")
                 \o <<Out("Next steps:", <<>>), Out("Or use this script:", <<>>)>>
    /\ Terminate(0)
    /\ UNCHANGED <<args, system, tool, i, missing, running, invoked, run, prev>>

\* the operator runs the script again: same flags, same platform, tools
\* that behave as before; the process itself starts afresh
Rerun ==
    /\ pc = "done"
    /\ run < MaxRuns
    /\ run' = run + 1
    /\ prev' = [invoked |-> invoked, exitStatus |-> exitStatus]
    /\ pc' = "check_prerequisites"
    /\ i' = 1
    /\ missing' = <<>>
    /\ running' = {}
    /\ invoked' = <<>>
    /\ output' = <<>>
    /\ exitStatus' = -1
    /\ UNCHANGED <<args, system, tool>>

Next ==
    \/ CheckLaunch \/ CheckExit \/ CheckDone
    \/ WasmStep \/ WasmExit
    \/ InstallStep \/ InstallExit
    \/ BuildStep \/ BuildExit
    \/ DevStep \/ DevExit
    \/ SetupDone
    \/ Rerun

Spec == Init /\ [][Next]_vars

\* the steps of one run: those of the orchestrator and the exits of its
\* children
Step ==
    \/ CheckLaunch \/ CheckExit \/ CheckDone
    \/ WasmStep \/ WasmExit
    \/ InstallStep \/ InstallExit
    \/ BuildStep \/ BuildExit
    \/ DevStep \/ DevExit
    \/ SetupDone

\* main is straight-line code, so the orchestrator always takes its next
\* step; every child it waits for ends (exits or is interrupted)
FairSpec == Spec /\ WF_vars(Step)

TypeOK ==
    /\ args \in Flags
    /\ system \in Systems
    /\ \A c \in Commands : tool[c] \in Outcomes \cup {Unset}
    /\ running \subseteq Commands
    /\ exitStatus \in {-1, 0, 1, ExitInterrupted}

----------------------------------------------------------------------------
(* Vocabulary of the properties *)

Range(s) == {s[k] : k \in 1..Len(s)}

\* command line c was handed to subprocess.run in this run
Invoked(c) == c \in Range(invoked)

\* ... and its child has ended
Exited(c) == Invoked(c) /\ c \notin running

Succeeded(c) == Exited(c) /\ tool[c] = [kind |-> "exit", code |-> 0]
NonZero(c) == Exited(c) /\ tool[c].kind = "exit" /\ tool[c].code # 0
Absent(c) == Exited(c) /\ tool[c].kind = "absent"
InterruptedAt(c) == Exited(c) /\ tool[c].kind = "interrupt"

Times(c) == Cardinality({k \in 1..Len(invoked) : invoked[k] = c})

Printed(line) == line \in Range(output)
PrintedKind(kind) == \E k \in 1..Len(output) : output[k].kind = kind

\* the version checks of the fixed list, in its order
Checks == [k \in 1..Len(tools) |-> tools[k].check_cmd]

\* the setup steps the flags ask for
SetupSteps == (IF args.skip_wasm THEN <<>> ELSE <<WasmCmd>>)
              \o (IF args.skip_install THEN <<>> ELSE <<InstallCmd>>)

----------------------------------------------------------------------------
(* C1: when a prerequisite tool fails its version check (non-zero exit or *)
(* executable not found), no WASM-build, install, production-build or     *)
(* dev-server command is ever invoked in that run, and the run, unless    *)
(* the operator interrupts a version check, ends with exit status 1,      *)
(* whatever the flags.                                                    *)
C1_PrerequisiteFailureAborts ==
    (\E c \in CheckCmds : NonZero(c) \/ Absent(c))
    => /\ Range(invoked) \cap StepCmds = {}
       /\ pc \notin {"wasm", "wasm_wait", "install", "install_wait", "mode",
                     "build_wait", "dev_wait"}
       /\ (pc = "done" /\ ~(\E c \in CheckCmds : InterruptedAt(c)) => exitStatus = 1)

C1_Witness ==
    /\ pc = "done" /\ exitStatus = 1
    /\ ~args.skip_wasm /\ ~args.skip_install /\ args.build
    /\ Succeeded(tools[1].check_cmd) /\ Absent(tools[2].check_cmd)
    /\ missing = <<"npm">>

(* C2: when the command of a step exits with a non-zero status, the run  *)
(* has ended with exit status 1, that command is the last one invoked    *)
(* (no later step runs) and it was invoked once (no retry).              *)
C2_StepFailureIsFatal ==
    \A c \in StepCmds :
        NonZero(c) => /\ pc = "done"
                      /\ exitStatus = 1
                      /\ invoked[Len(invoked)] = c
                      /\ Times(c) = 1

C2_Witness ==
    /\ pc = "done" /\ exitStatus = 1
    /\ args.build /\ ~args.skip_install
    /\ tool[WasmCmd] = [kind |-> "exit", code |-> 2]
    /\ invoked = Checks \o <<WasmCmd>>

(* C3: with --build, a run in which every invoked command succeeded has  *)
(* invoked exactly the version checks, the setup steps not skipped and   *)
(* production-build, in this order; and no run with --build, successful  *)
(* or not, invokes the dev-server command.                               *)
C3_BuildSequence ==
    args.build
    => /\ ~Invoked(DevCmd)
       /\ (pc = "done" /\ (\A c \in Range(invoked) : Succeeded(c))
           => invoked = Checks \o SetupSteps \o <<BuildCmd>>)

C3_Witness ==
    /\ pc = "done" /\ exitStatus = 0
    /\ args.build /\ args.dev /\ ~args.skip_wasm /\ ~args.skip_install
    /\ invoked = Checks \o <<WasmCmd, InstallCmd, BuildCmd>>

(* C4: with --dev and without --build, a run whose other commands all    *)
(* succeeded has invoked the version checks, the setup steps not skipped *)
(* and last the dev-server command; when the operator interrupts the     *)
(* dev-server command, the last line printed is the stopped-message and  *)
(* the exit status is 0.                                                 *)
C4_DevSequenceAndInterrupt ==
    (args.dev /\ ~args.build /\ pc = "done")
    => /\ (\A c \in Range(invoked) \ {DevCmd} : Succeeded(c))
          => invoked = Checks \o SetupSteps \o <<DevCmd>>
       /\ InterruptedAt(DevCmd)
          => /\ exitStatus = 0
             /\ output # <<>>
             /\ output[Len(output)] = Out("Development server stopped.", <<>>)

C4_Witness ==
    /\ pc = "done" /\ exitStatus = 0
    /\ args.dev /\ ~args.build /\ ~args.skip_wasm /\ ~args.skip_install
    /\ InterruptedAt(DevCmd)
    /\ invoked = Checks \o <<WasmCmd, InstallCmd, DevCmd>>

(* C5: with neither --build nor --dev, production-build and dev-server   *)
(* are never invoked, and a run in which every invoked command succeeded *)
(* has invoked exactly the version checks and the setup steps not        *)
(* skipped, has printed the guidance and has exit status 0; with both    *)
(* setup steps skipped only the version checks are invoked.              *)
C5_SetupOnly ==
    (~args.build /\ ~args.dev)
    => /\ ~Invoked(BuildCmd) /\ ~Invoked(DevCmd)
       /\ (args.skip_wasm /\ args.skip_install => Range(invoked) \subseteq CheckCmds)
       /\ (pc = "done" /\ (\A c \in Range(invoked) : Succeeded(c))
           => /\ invoked = Checks \o SetupSteps
              /\ exitStatus = 0
              /\ Printed(Out("Setup Complete!", <<>>))
              /\ Printed(Out("Next steps:", <<>>))
              /\ Printed(Out("Or use this script:", <<>>)))

C5_Witness ==
    /\ pc = "done" /\ exitStatus = 0
    /\ ~args.build /\ ~args.dev /\ args.skip_wasm /\ args.skip_install
    /\ invoked = Checks
    /\ Printed(Out("Next steps:", <<>>))

(* C6: a run that ended without an operator interrupt outside the        *)
(* dev-server step has exit status 0 or 1: 0 exactly when every invoked  *)
(* command succeeded or the dev-server was interrupted, 1 exactly when a *)
(* version check failed or a step's command exited non-zero or was not   *)
(* found.                                                                *)
C6_ExitStatus ==
    (pc = "done" /\ ~(\E c \in Commands \ {DevCmd} : InterruptedAt(c)))
    => /\ exitStatus \in {0, 1}
       /\ exitStatus = 0 <=> \/ \A c \in Range(invoked) : Succeeded(c)
                             \/ InterruptedAt(DevCmd)
       /\ exitStatus = 1 <=> \/ \E c \in CheckCmds : NonZero(c) \/ Absent(c)
                             \/ \E c \in StepCmds : NonZero(c)
                             \/ \E c \in StepCmds : Absent(c)

C6_Witness ==
    /\ pc = "done" /\ exitStatus = 1
    /\ NonZero(DevCmd)
    /\ \A c \in Range(invoked) \ {DevCmd} : Succeeded(c)

\* the tools whose version check failed, in the order of the fixed list
FailedTools ==
    LET Failed(t) == \E k \in 1..Len(tools) :
                        /\ tools[k].tool = t
                        /\ NonZero(tools[k].check_cmd) \/ Absent(tools[k].check_cmd)
    IN SelectSeq([k \in 1..Len(tools) |-> tools[k].tool], Failed)

\* the tools named by the "  - tool" lines of the error stream, in order
ReportedTools ==
    LET IsToolLine(l) == l.stream = "stderr" /\ l.kind = "  - tool"
        lines == SelectSeq(output, IsToolLine)
    IN [k \in 1..Len(lines) |-> lines[k].cmd[1]]

(* C7: the loop of version checks is left only after every tool of the   *)
(* fixed list has been checked, also when an earlier check failed; when  *)
(* the missing-tools report is printed the run has ended with status 1   *)
(* and the tools the report names are exactly those whose check exited   *)
(* non-zero or was not found, all of them.                               *)
C7_FailComplete ==
    /\ (pc = "check_prerequisites" /\ i > Len(tools)) => invoked = Checks
    /\ PrintedKind("Error: Missing required tools:")
       => /\ invoked = Checks
          /\ ReportedTools = FailedTools
          /\ ReportedTools # <<>>
          /\ pc = "done" /\ exitStatus = 1

C7_Witness ==
    /\ pc = "done" /\ exitStatus = 1
    /\ NonZero(tools[1].check_cmd) /\ Absent(tools[2].check_cmd)
    /\ ReportedTools = <<"wasm-pack", "npm">>

(* C8: whenever the executable of a step is absent from the search path  *)
(* when the step runs, on either platform, the run ends with exit status *)
(* 1 after the command-not-found diagnostic naming the executable, and   *)
(* without the diagnostic of a non-zero exit.                            *)
C8_NotFoundDiagnostic ==
    \A c \in StepCmds :
        (pc = "done" /\ Absent(c))
        => /\ exitStatus = 1
           /\ Printed(Err("Error: Command not found", <<c[1]>>, 0))
           /\ ~PrintedKind("Error: Command failed with exit code")

(* C9: whenever the command of one of the four steps runs and returns a  *)
(* non-zero status, the run ends with exit status 1 after the            *)
(* command-failure diagnostic with that exit code on the error stream.   *)
C9_FailureDiagnostic ==
    \A c \in StepCmds :
        (pc = "done" /\ NonZero(c))
        => /\ exitStatus = 1
           /\ Printed(Err("Error: Command failed with exit code", <<>>, tool[c].code))

(* C10: run again with the same flags, on the same platform and with     *)
(* tools that behave as before, the orchestrator invokes the commands of *)
(* the previous run in the same order, and ends with the same sequence   *)
(* of invocations and the same exit status.                              *)
C10_RerunRepeats ==
    run > 1
    => /\ Len(invoked) <= Len(prev.invoked)
       /\ \A k \in 1..Len(invoked) : invoked[k] = prev.invoked[k]
       /\ pc = "done" => /\ invoked = prev.invoked
                         /\ exitStatus = prev.exitStatus

C10_Witness ==
    /\ run = 2 /\ pc = "done" /\ exitStatus = 1
    /\ NonZero(InstallCmd)
    /\ invoked = Checks \o <<WasmCmd, InstallCmd>>
    /\ prev.invoked = invoked

(* C11: at most one child process of the orchestrator is running at any  *)
(* time; a running child is the command invoked last, and when a command *)
(* is invoked every command invoked before it in the run has exited, the *)
(* step commands among them with status 0.                               *)
C11_OneChildAtATime ==
    /\ Cardinality(running) <= 1
    /\ \A c \in running : invoked # <<>> /\ invoked[Len(invoked)] = c
    /\ \A k \in 1..Len(invoked) :
          k < Len(invoked)
          => /\ Exited(invoked[k])
             /\ invoked[k] \in StepCmds => Succeeded(invoked[k])

C11_Witness ==
    /\ running = {BuildCmd}
    /\ pc = "build_wait"
    /\ invoked = Checks \o <<WasmCmd, InstallCmd, BuildCmd>>
    /\ Succeeded(WasmCmd) /\ Succeeded(InstallCmd)

(* C12: whenever the command of one of the four steps, the dev-server    *)
(* included, has been launched, a description line followed by the line  *)
(* "$ <command>" was printed on the standard stream before.              *)
C12_StepsAnnounced ==
    \A c \in StepCmds :
        Invoked(c)
        => \E k \in 2..Len(output) :
              /\ output[k] = Out("$", c)
              /\ output[k - 1].stream = "stdout"
              /\ output[k - 1].kind # "rule"

\* the success line that follows the command of a step, if any
OkKind(c) ==
    CASE c = WasmCmd -> "[OK] WASM module built successfully"
      [] c = InstallCmd -> "[OK] Dependencies installed successfully"
      [] c = BuildCmd -> "[OK] Frontend built successfully"
      [] OTHER -> "none"

CompletionKinds == {"Build Complete!", "Setup Complete!"}

(* C13: when the operator interrupts a version check, WASM-build,        *)
(* dependency-install or production-build, nothing catches the           *)
(* interrupt: the run has ended there with a status other than 0, the    *)
(* interrupted command is the last one invoked, the last thing printed   *)
(* is the interpreter's KeyboardInterrupt traceback, and neither the     *)
(* stopped-message nor the step's [OK] line nor a completion message was *)
(* printed.                                                              *)
C13_InterruptOutsideDevServer ==
    \A c \in Commands \ {DevCmd} :
        InterruptedAt(c)
        => /\ pc = "done"
           /\ exitStatus # 0
           /\ invoked[Len(invoked)] = c
           /\ output # <<>>
           /\ output[Len(output)] = Traceback("KeyboardInterrupt", c, 0)
           /\ ~PrintedKind("Development server stopped.")
           /\ ~PrintedKind(OkKind(c))
           /\ \A kind \in CompletionKinds : ~PrintedKind(kind)

C13_Witness ==
    /\ pc = "done" /\ exitStatus = ExitInterrupted
    /\ args.build /\ ~args.skip_wasm /\ ~args.skip_install
    /\ InterruptedAt(InstallCmd)
    /\ invoked = Checks \o <<WasmCmd, InstallCmd>>

\* the lines of the missing-tools, command-failure and command-not-found
\* reports
DiagnosticKinds ==
    {"Error: Missing required tools:", "  - tool",
     "Please install the missing tools and try again.",
     "Error: Command failed with exit code",
     "Error: Command not found", "Make sure it is installed and in your PATH"}

\* the tracebacks of the interpreter
ExceptionKinds == {"CalledProcessError", "FileNotFoundError", "KeyboardInterrupt"}

(* C14: every line of a diagnostic (missing tools, command failure,      *)
(* command not found) is written to the error stream, and every other    *)
(* line the orchestrator prints (banners, descriptions, command lines,   *)
(* skip notices, [OK] lines, completion and guidance text, the           *)
(* stopped-message) to the standard stream; the only other lines on the  *)
(* error stream are the interpreter's tracebacks.                        *)
C14_Streams ==
    \A k \in 1..Len(output) :
        /\ output[k].stream \in {"stdout", "stderr"}
        /\ output[k].kind \in DiagnosticKinds => output[k].stream = "stderr"
        /\ output[k].kind \notin DiagnosticKinds \cup ExceptionKinds
           => output[k].stream = "stdout"
        /\ output[k].kind \in ExceptionKinds => output[k].stream = "stderr"

C14_Witness ==
    /\ pc = "done" /\ exitStatus = 1
    /\ Printed(Out("[OK] WASM module built successfully", <<>>))
    /\ Printed(Out("$", InstallCmd))
    /\ output[Len(output)] = Err("Error: Command failed with exit code", <<>>, 2)

(* C15: while a child has not exited the orchestrator waits: it launches *)
(* nothing, moves to no later step and does not end; no command is       *)
(* invoked twice in a run; and, every child ending sooner or later, a    *)
(* run that has not ended eventually ends with an exit status.           *)
C15_WaitsAndTerminates ==
    /\ [][running # {} => /\ invoked' = invoked
                          /\ (pc' # pc => running' = {})]_vars
    /\ [](running # {} => pc \in {"check_wait", "wasm_wait", "install_wait",
                                  "build_wait", "dev_wait"})
    /\ [](\A c \in Commands : Times(c) <= 1)
    /\ (pc # "done") ~> (pc = "done" /\ running = {} /\ exitStatus >= 0)

C15_Witness ==
    /\ pc = "done" /\ exitStatus = 0 /\ running = {}
    /\ system = "Windows" /\ args.build /\ ~args.dev
    /\ invoked = Checks \o <<WasmCmd, InstallCmd, BuildCmd>>
    /\ \A c \in Range(invoked) : Times(c) = 1

(* C16: whatever the flags, a run that got past the version checks, or   *)
(* ended in them without an interrupt, has invoked "wasm-pack --version" *)
(* and then "npm --version" first; so with --skip-wasm and the wasm-pack *)
(* check failing, or with --skip-wasm --skip-install, no mode flag and   *)
(* the npm check failing, the run ends with exit status 1 having invoked *)
(* the two version checks only.                                          *)
C16_ChecksIgnoreFlags ==
    LET wp == <<"wasm-pack", "--version">>
        np == <<"npm", "--version">>
        Fails(c) == NonZero(c) \/ Absent(c)
        CheckInterrupted == InterruptedAt(wp) \/ InterruptedAt(np)
    IN /\ (pc \notin {"check_prerequisites", "check_wait"} /\ ~CheckInterrupted)
          => /\ Len(invoked) >= 2
             /\ invoked[1] = wp /\ invoked[2] = np
       /\ (/\ pc = "done" /\ ~CheckInterrupted
           /\ \/ args.skip_wasm /\ Fails(wp)
              \/ args.skip_wasm /\ args.skip_install /\ ~args.build /\ ~args.dev /\ Fails(np))
          => /\ exitStatus = 1
             /\ invoked = <<wp, np>>

C16_Witness ==
    /\ pc = "done" /\ exitStatus = 1
    /\ args.skip_wasm /\ args.skip_install /\ ~args.build /\ ~args.dev
    /\ Succeeded(<<"wasm-pack", "--version">>)
    /\ NonZero(<<"npm", "--version">>)
    /\ invoked = << <<"wasm-pack", "--version">>, <<"npm", "--version">> >>

SuccessKinds == {OkKind(c) : c \in {WasmCmd, InstallCmd, BuildCmd}} \cup CompletionKinds

(* C17: the [OK] line of a step is printed only when the step's command  *)
(* has exited with status 0, "Build Complete!" only when                 *)
(* production-build has, "Setup Complete!" only with neither --build nor *)
(* --dev and every setup step not skipped having exited with status 0;   *)
(* and no [OK] or completion line follows a line of the error stream.    *)
C17_SuccessOnlyAfterSuccess ==
    /\ \A c \in {WasmCmd, InstallCmd, BuildCmd} : PrintedKind(OkKind(c)) => Succeeded(c)
    /\ PrintedKind("Build Complete!") => Succeeded(BuildCmd)
    /\ PrintedKind("Setup Complete!")
       => /\ ~args.build /\ ~args.dev
          /\ \A c \in Range(SetupSteps) : Succeeded(c)
    /\ \A j, k \in 1..Len(output) :
          (j < k /\ output[j].stream = "stderr") => output[k].kind \notin SuccessKinds

C17_Witness ==
    /\ pc = "done" /\ exitStatus = 1
    /\ args.build
    /\ Printed(Out("[OK] WASM module built successfully", <<>>))
    /\ Printed(Out("[OK] Dependencies installed successfully", <<>>))
    /\ NonZero(BuildCmd)
    /\ ~PrintedKind("Build Complete!")

====
